---- MODULE Spec2Model ----
(***************************************************************************)
(* csv_median_calculator: the hybrid median calculator                     *)
(* (src/src/median_calculator.hpp) and the batch pipeline of main()        *)
(* (src/src/main.cpp, src/src/csv_reader.hpp, and cfg::parse_config of     *)
(* config_parser.hpp, found in src/unnamed/part_000).                      *)
(*                                                                         *)
(* Three specifications: SpecCalc, a caller of one calculator; Spec, runs  *)
(* of main() over directories of well-formed CSV files; SpecDir, runs of   *)
(* main() over directories and configuration files of every make-up.       *)
(*                                                                         *)
(* Numbers.  A double is an exact rational <<n, d>> with d > 0 in lowest   *)
(* terms; <<0, 0>> is the quiet NaN.  A long double is [hi, lo]: hi is the *)
(* nearest double and lo = 1 says that the value lies above hi by a        *)
(* residual smaller than half a unit in the last place of a double (bits   *)
(* only the extended format holds), lo = 0 that it is exactly hi.          *)
(* Arithmetic on doubles is exact rational arithmetic: rounding of the     *)
(* results of + and / is not modelled.                                     *)
(***************************************************************************)
EXTENDS Integers, Sequences, FiniteSets, TLC

VARIABLES
    \* median::median_calculator
    _seed_threshold, _has_value, _using_psquare, _buffer, _acc,
    \* observation of the calculator's caller
    added,      \* the long doubles passed to add since construction / reset
    n_adds,     \* number of add calls since construction
    last_op,    \* the last call: "new", "add", "median" or "reset"
    prev_op,    \* the call before it
    ret,        \* what the last call returned when it was median()
    \* main()
    pc, dir, records, idx, ofs, last_median_str, changes_written, exit_code,
    config_file,  \* the configuration file at config_path
    filename_mask, \* config.filename_mask
    opened,       \* the files an ifstream was constructed for, in order
    err,          \* the error reported: <<>>, or <<[class, kind, file, line_no]>>
    phases,       \* the phases of main() carried out so far, in order
    out_fs        \* whether the output directory / median_result.csv got made

calc_vars == <<_seed_threshold, _has_value, _using_psquare, _buffer, _acc>>
obs_vars  == <<added, n_adds, last_op, prev_op, ret>>
main_vars == <<pc, dir, records, idx, ofs, last_median_str, changes_written, exit_code,
               config_file, filename_mask, opened, err, phases, out_fs>>
vars      == <<calc_vars, obs_vars, main_vars>>

---------------------------------------------------------------------------
(* Bounds of the model *)

MaxSeed == 5        \* seed thresholds 1..MaxSeed are constructed
MaxAdds == 6        \* add calls per calculator lifetime
MaxRecords == 3     \* data rows in the input directory

---------------------------------------------------------------------------
(* Rational arithmetic standing for double arithmetic *)

Abs(x) == IF x < 0 THEN -x ELSE x

RECURSIVE GCD(_, _)
GCD(a, b) == IF b = 0 THEN a ELSE GCD(b, a % b)

Norm(n, d) ==
    LET g == GCD(Abs(n), d)
    IN  <<(IF n < 0 THEN -(Abs(n) \div g) ELSE n \div g), d \div g>>

R(n) == <<n, 1>>

NaN == <<0, 0>>

RAdd(a, b) ==
    LET g == GCD(a[2], b[2])
        l == (a[2] \div g) * b[2]
    IN  Norm(a[1] * (l \div a[2]) + b[1] * (l \div b[2]), l)

RNeg(a) == <<-a[1], a[2]>>

RSub(a, b) == RAdd(a, RNeg(b))

RMul(a, b) == Norm(a[1] * b[1], a[2] * b[2])

\* a / b for b # 0
RDiv(a, b) ==
    IF b[1] < 0 THEN Norm(-(a[1] * b[2]), a[2] * (-b[1]))
                ELSE Norm(a[1] * b[2], a[2] * b[1])

RLess(a, b) == a[1] * b[2] < b[1] * a[2]

RLeq(a, b) == a[1] * b[2] <= b[1] * a[2]

---------------------------------------------------------------------------
(* long double <-> double *)

LD(n, d, lo) == [hi |-> Norm(n, d), lo |-> lo]

\* static_cast<double>(long double): round to nearest, the residual is lost
ToDouble(value) == value.hi

\* static_cast<long double>(double): exact
ToLongDouble(v) == [hi |-> v, lo |-> 0]

---------------------------------------------------------------------------
(* std::sort / std::nth_element / std::max_element on vectors of doubles *)

RECURSIVE InsertSorted(_, _)
InsertSorted(s, v) ==
    IF s = <<>> THEN <<v>>
    ELSE IF RLess(v, Head(s)) THEN <<v>> \o s
    ELSE <<Head(s)>> \o InsertSorted(Tail(s), v)

RECURSIVE SortDoubles(_)
SortDoubles(s) ==
    IF s = <<>> THEN <<>>
    ELSE InsertSorted(SortDoubles(SubSeq(s, 1, Len(s) - 1)), s[Len(s)])

RECURSIVE PermsOf(_)
PermsOf(S) ==
    IF S = {} THEN {<<>>}
    ELSE UNION {{<<x>> \o p : p \in PermsOf(S \ {x})} : x \in S}

\* the permutations of 1..n, for the vector lengths the model reaches
IndexPerms ==
    LET m == IF MaxSeed - 1 > MaxRecords THEN MaxSeed - 1 ELSE MaxRecords
    IN  [n \in 0..(IF m > 4 THEN m ELSE 4) |-> PermsOf(1..n)]

\* Every arrangement std::nth_element(tmp.begin(), tmp.begin() + mid, tmp.end())
\* may leave: a permutation of tmp in which no element before position mid
\* (0-based) is greater than tmp[mid] and none after it is less.
NthElementOutcomes(tmp, mid) ==
    LET n == Len(tmp)
    IN  {t \in {[i \in 1..n |-> tmp[p[i]]] : p \in IndexPerms[n]} :
            /\ \A i \in 1..mid : RLeq(t[i], t[mid + 1])
            /\ \A i \in (mid + 2)..n : RLeq(t[mid + 1], t[i])}

\* the element before the middle taken for the largest of the lower part
MaxElement_Last(tmp, k) == tmp[k]

\* *std::max_element(tmp.begin(), tmp.begin() + k), k >= 1
MaxElement(tmp, k) ==
    LET i == CHOOSE i \in 1..k : \A j \in 1..k : RLeq(tmp[j], tmp[i])
    IN  tmp[i]

---------------------------------------------------------------------------
(* median_calculator::exact_median_from_buffer, given the arrangement tmp  *)
(* that nth_element left                                                   *)

\* the even-count branch forgotten: the upper middle element for every count
ExactMedianOf_UpperMiddle(tmp) == tmp[(Len(tmp) \div 2) + 1]

ExactMedianOf(tmp) ==
    LET n   == Len(tmp)
        mid == n \div 2
    IN  IF n % 2 = 1 THEN tmp[mid + 1]
        ELSE LET hi == tmp[mid + 1]
                 lo == MaxElement(tmp, mid)
             IN  RDiv(RAdd(lo, hi), R(2))

\* the values exact_median_from_buffer can return for this buffer
exact_median_from_buffer(buffer) ==
    IF buffer = <<>> THEN {NaN}
    ELSE {ExactMedianOf(tmp) : tmp \in NthElementOutcomes(buffer, Len(buffer) \div 2)}

---------------------------------------------------------------------------
(* accumulator_t = accumulator_set<double, stats<tag::p_square_quantile>>  *)
(* as median_calculator uses it: construction with quantile_probability =  *)
(* 0.5, operator() on one sample, and the extractor p_square_quantile.     *)
(* The accumulator keeps the sample count and five markers: heights,       *)
(* actual_positions, desired_positions (Boost.Accumulators' P^2).          *)

\* _acc.emplace(quantile_probability = 0.5)
NewAcc ==
    [cnt |-> 0,
     heights           |-> <<R(0), R(0), R(0), R(0), R(0)>>,
     actual_positions  |-> <<R(1), R(2), R(3), R(4), R(5)>>,
     desired_positions |-> <<R(1), R(2), R(3), R(4), R(5)>>]

\* positions_increments for p = 0.5: 0, p/2, p, (1+p)/2, 1
positions_increments == <<R(0), <<1, 4>>, <<1, 2>>, <<3, 4>>, R(1)>>

\* std::upper_bound(heights.begin(), heights.end(), v) - heights.begin()
UpperBound(heights, v) ==
    IF \E k \in 1..5 : RLess(v, heights[k])
    THEN (CHOOSE k \in 1..5 : RLess(v, heights[k]) /\ \A j \in 1..(k - 1) : ~RLess(v, heights[j])) - 1
    ELSE 5

\* one pass of the loop "adjust heights and actual positions of markers 1 to 3"
\* for the marker with 0-based index i (sequence index i + 1)
AdjustMarker(a, i) ==
    LET k  == i + 1
        d  == RSub(a.desired_positions[k], a.actual_positions[k])
        dp == RSub(a.actual_positions[k + 1], a.actual_positions[k])
        dm == RSub(a.actual_positions[k - 1], a.actual_positions[k])
        hp == RDiv(RSub(a.heights[k + 1], a.heights[k]), dp)
        hm == RDiv(RSub(a.heights[k - 1], a.heights[k]), dm)
    IN  IF \/ (RLeq(R(1), d) /\ RLess(R(1), dp))
           \/ (RLeq(d, R(-1)) /\ RLess(dm, R(-1)))
        THEN LET sign_d == IF RLess(R(0), d) THEN R(1) ELSE R(-1)
                 h == RAdd(a.heights[k],
                           RMul(RDiv(sign_d, RSub(dp, dm)),
                                RAdd(RMul(RSub(sign_d, dm), hp),
                                     RMul(RSub(dp, sign_d), hm))))
                 nh == IF RLess(a.heights[k - 1], h) /\ RLess(h, a.heights[k + 1])
                       THEN h
                       ELSE IF RLess(R(0), d) THEN RAdd(a.heights[k], hp)
                       ELSE IF RLess(d, R(0)) THEN RSub(a.heights[k], hm)
                       ELSE a.heights[k]
             IN  [a EXCEPT !.heights[k] = nh,
                           !.actual_positions[k] = RAdd(@, sign_d)]
        ELSE a

\* (*_acc)(v)
AccAdd(a, v) ==
    LET cnt == a.cnt + 1
    IN  IF cnt <= 5
        THEN LET hs == [a.heights EXCEPT ![cnt] = v]
             IN  [a EXCEPT !.cnt = cnt,
                           !.heights = IF cnt = 5 THEN SortDoubles(hs) ELSE hs]
        ELSE LET h0 == IF RLess(v, a.heights[1]) THEN [a.heights EXCEPT ![1] = v]
                       ELSE IF RLeq(a.heights[5], v) THEN [a.heights EXCEPT ![5] = v]
                       ELSE a.heights
                 sample_cell == IF RLess(v, a.heights[1]) THEN 1
                                ELSE IF RLeq(a.heights[5], v) THEN 4
                                ELSE UpperBound(a.heights, v)
                 a1 == [a EXCEPT
                          !.cnt = cnt,
                          !.heights = h0,
                          !.actual_positions =
                              [i \in 1..5 |-> IF i - 1 >= sample_cell
                                              THEN RAdd(a.actual_positions[i], R(1))
                                              ELSE a.actual_positions[i]],
                          !.desired_positions =
                              [i \in 1..5 |-> RAdd(a.desired_positions[i],
                                                   positions_increments[i])]]
             IN  AdjustMarker(AdjustMarker(AdjustMarker(a1, 1), 2), 3)

\* boost::accumulators::p_square_quantile(*_acc): the middle marker's height
p_square_quantile(a) == a.heights[3]

RECURSIVE FeedAll(_, _)
FeedAll(a, buffer) ==
    IF buffer = <<>> THEN a ELSE FeedAll(AccAdd(a, Head(buffer)), Tail(buffer))

---------------------------------------------------------------------------
(* median::median_calculator *)

\* the constructor; main() constructs with the default argument
DefaultSeedThreshold == 64

Construct(seed_threshold) ==
    /\ _seed_threshold = seed_threshold
    /\ _has_value = FALSE
    /\ _using_psquare = FALSE
    /\ _buffer = <<>>
    /\ _acc = <<>>

\* promote_to_psquare() that leaves the buffer as it is
promote_to_psquare_KeepsBuffer(buffer) ==
    /\ _acc' = <<FeedAll(NewAcc, buffer)>>
    /\ _buffer' = buffer
    /\ _using_psquare' = TRUE

\* promote_to_psquare(), on the buffer add has just extended
promote_to_psquare(buffer) ==
    /\ _acc' = <<FeedAll(NewAcc, buffer)>>
    /\ _buffer' = <<>>
    /\ _using_psquare' = TRUE

\* add(value) that skips a value equal to the one added last
add_SkipsRepeat(value) ==
    LET v == ToDouble(value)
    IN  /\ _has_value' = TRUE
        /\ _seed_threshold' = _seed_threshold
        /\ IF ~_using_psquare
           THEN IF _buffer # <<>> /\ _buffer[Len(_buffer)] = v
                THEN UNCHANGED <<_buffer, _acc, _using_psquare>>
                ELSE IF Len(Append(_buffer, v)) >= _seed_threshold
                THEN promote_to_psquare(Append(_buffer, v))
                ELSE /\ _buffer' = Append(_buffer, v)
                     /\ UNCHANGED <<_acc, _using_psquare>>
           ELSE /\ _acc' = <<AccAdd(_acc[1], v)>>
                /\ UNCHANGED <<_buffer, _using_psquare>>

\* add(value)
add(value) ==
    LET v == ToDouble(value)
    IN  /\ _has_value' = TRUE
        /\ _seed_threshold' = _seed_threshold
        /\ IF ~_using_psquare
           THEN IF Len(Append(_buffer, v)) >= _seed_threshold
                THEN promote_to_psquare(Append(_buffer, v))
                ELSE /\ _buffer' = Append(_buffer, v)
                     /\ UNCHANGED <<_acc, _using_psquare>>
           ELSE /\ _acc' = <<AccAdd(_acc[1], v)>>
                /\ UNCHANGED <<_buffer, _using_psquare>>

\* median() const, on a calculator with these members: the set of values the
\* call can return, <<>> for std::nullopt and <<m>> for the long double m
median(has_value, using_psquare, buffer, acc) ==
    IF ~has_value THEN {<<>>}
    ELSE IF ~using_psquare
    THEN {<<ToLongDouble(m)>> : m \in exact_median_from_buffer(buffer)}
    ELSE {<<ToLongDouble(p_square_quantile(acc[1]))>>}

\* reset() that leaves _has_value set
reset_KeepsHasValue ==
    /\ _buffer' = <<>>
    /\ _acc' = <<>>
    /\ _using_psquare' = FALSE
    /\ UNCHANGED <<_has_value, _seed_threshold>>

\* reset()
reset ==
    /\ _buffer' = <<>>
    /\ _acc' = <<>>
    /\ _using_psquare' = FALSE
    /\ _has_value' = FALSE
    /\ _seed_threshold' = _seed_threshold

---------------------------------------------------------------------------
(* A caller of one median_calculator: any sequence of add, median, reset *)

Values == {LD(1, 1, 0), LD(3, 1, 0), LD(2, 1, 1)}

MainIdle ==
    /\ pc = "idle"
    /\ dir = <<>>
    /\ records = <<>>
    /\ idx = 0
    /\ ofs = [is_open |-> FALSE, lines |-> <<>>]
    /\ last_median_str = <<>>
    /\ changes_written = 0
    /\ exit_code = -1
    /\ config_file = <<>>
    /\ filename_mask = <<>>
    /\ opened = <<>>
    /\ err = <<>>
    /\ phases = <<>>
    /\ out_fs = [directory |-> FALSE, file |-> FALSE]

InitCalc ==
    /\ \E seed_threshold \in 1..MaxSeed : Construct(seed_threshold)
    /\ added = <<>>
    /\ n_adds = 0
    /\ last_op = "new"
    /\ prev_op = "new"
    /\ ret = <<>>
    /\ MainIdle

Add ==
    /\ n_adds < MaxAdds
    /\ \E value \in Values :
          /\ add(value)
          /\ added' = Append(added, value)
    /\ n_adds' = n_adds + 1
    /\ last_op' = "add"
    /\ prev_op' = last_op
    /\ ret' = <<>>
    /\ UNCHANGED main_vars

Median ==
    /\ ret' \in median(_has_value, _using_psquare, _buffer, _acc)
    /\ last_op' = "median"
    /\ prev_op' = last_op
    /\ UNCHANGED <<calc_vars, added, n_adds, main_vars>>

Reset ==
    /\ reset
    /\ added' = <<>>
    /\ last_op' = "reset"
    /\ prev_op' = last_op
    /\ ret' = <<>>
    /\ UNCHANGED <<n_adds, main_vars>>

NextCalc == Add \/ Median \/ Reset

SpecCalc == InitCalc /\ [][NextCalc]_vars

---------------------------------------------------------------------------
(* csv::read_csv_files.  The input directory is a sequence of entries in   *)
(* the order the directory iterator yields them.  An entry is              *)
(* [name, type, openable, header, lines, children]: type is "regular" or   *)
(* "directory"; openable says whether the ifstream opens; header is "ok"   *)
(* for a first line with the columns receive_ts and price, "none" for a    *)
(* file without a first line, "no_columns" for a first line that lacks one *)
(* of the columns; children are the entries of a subdirectory.  A line     *)
(* after the header is [kind, receive_ts, price] with kind "ok" for a row  *)
(* whose two fields parse, "empty" for an empty line, "short" for a row    *)
(* with too few fields, "bad_ts" / "bad_price" for a field that does not   *)
(* parse.                                                                  *)

\* the file names and masks of the model, and the characters of each
Strings == {"a.csv", "b.csv", "b.CSV", "b.txt", ".csv", "d.csv", "a", "b", "sv"}

Chars ==
    [s \in Strings |->
        CASE s = "a.csv" -> <<"a", ".", "c", "s", "v">>
          [] s = "b.csv" -> <<"b", ".", "c", "s", "v">>
          [] s = "b.CSV" -> <<"b", ".", "C", "S", "V">>
          [] s = "b.txt" -> <<"b", ".", "t", "x", "t">>
          [] s = ".csv"  -> <<".", "c", "s", "v">>
          [] s = "d.csv" -> <<"d", ".", "c", "s", "v">>
          [] s = "a"     -> <<"a">>
          [] s = "b"     -> <<"b">>
          [] s = "sv"    -> <<"s", "v">>]

\* std::string operator< on entry.path().string(): the files of one directory
\* compare as their names do, byte by byte ('.' < 'C' < 'a' < 'b' < 'd')
PathRank ==
    [f \in {".csv", "b.CSV", "a.csv", "b.csv", "b.txt", "d.csv"} |->
        CASE f = ".csv"  -> 0
          [] f = "b.CSV" -> 1
          [] f = "a.csv" -> 2
          [] f = "b.csv" -> 3
          [] f = "b.txt" -> 4
          [] f = "d.csv" -> 5]

PathLess(a, b) == PathRank[a] < PathRank[b]

\* entry.path().extension(): from the last period on, empty when there is no
\* period or the only period is the first character
extension(fname) ==
    LET dots == {i \in 1..Len(fname) : fname[i] = "."}
        last == CHOOSE i \in dots : \A j \in dots : j <= i
    IN  IF dots = {} \/ last = 1 THEN <<>>
        ELSE SubSeq(fname, last, Len(fname))

\* ::tolower on one character, std::transform over the string
tolower(c) ==
    CASE c = "C" -> "c"
      [] c = "S" -> "s"
      [] c = "V" -> "v"
      [] OTHER   -> c

ToLowerAll(s) == [i \in 1..Len(s) |-> tolower(s[i])]

\* fname.find(m) != std::string::npos
Found(fname, m) ==
    \E i \in 0..(Len(fname) - Len(m)) : SubSeq(fname, i + 1, i + Len(m)) = m

\* a filter that compares the extension as it is spelt
Passes_CaseSensitive(entry, masks) ==
    LET fname == Chars[entry.name]
        ext   == extension(fname)
    IN  /\ entry.type = "regular"
        /\ ext # <<>>
        /\ ext = <<".", "c", "s", "v">>
        /\ \/ masks = <<>>
           \/ \E k \in 1..Len(masks) : Found(fname, Chars[masks[k]])

\* the filter at the head of the loop body: a regular file, extension .csv
\* whatever the case, and a mask found in the name when there are masks
Passes(entry, masks) ==
    LET fname == Chars[entry.name]
        ext   == extension(fname)
    IN  /\ entry.type = "regular"
        /\ ext # <<>>
        /\ ToLowerAll(ext) = <<".", "c", "s", "v">>
        /\ \/ masks = <<>>
           \/ \E k \in 1..Len(masks) : Found(fname, Chars[masks[k]])

\* the while (std::getline(ifs, line)) loop that skips a row it cannot use
RECURSIVE ReadLines_SkipsBadRow(_, _, _)
ReadLines_SkipsBadRow(file, k, acc) ==
    IF k > Len(file.lines) THEN [err |-> "", recs |-> acc]
    ELSE LET line    == file.lines[k]
             line_no == k + 1
         IN  IF line.kind = "ok"
             THEN ReadLines_SkipsBadRow(file, k + 1,
                      Append(acc, [receive_ts  |-> line.receive_ts,
                                   price       |-> line.price,
                                   source_file |-> file.name,
                                   line_no     |-> line_no]))
             ELSE ReadLines_SkipsBadRow(file, k + 1, acc)

\* the while (std::getline(ifs, line)) loop over one file, from line k on:
\* the records pushed, or the error that ends the read
RECURSIVE ReadLines(_, _, _)
ReadLines(file, k, acc) ==
    IF k > Len(file.lines) THEN [err |-> "", recs |-> acc]
    ELSE LET line    == file.lines[k]
             line_no == k + 1
         IN  IF line.kind = "empty" THEN ReadLines(file, k + 1, acc)
             ELSE IF line.kind = "ok"
             THEN ReadLines(file, k + 1,
                      Append(acc, [receive_ts  |-> line.receive_ts,
                                   price       |-> line.price,
                                   source_file |-> file.name,
                                   line_no     |-> line_no]))
             ELSE [err |-> line.kind, file |-> file.name, line_no |-> line_no, recs |-> acc]

\* the loop body behind the filter: open the file, read the header, find the
\* columns, read the lines
ReadFile(entry, out_records) ==
    IF ~entry.openable
    THEN [err |-> "open", file |-> entry.name, line_no |-> 0, recs |-> out_records]
    ELSE IF entry.header = "none" THEN [err |-> "", recs |-> out_records]
    ELSE IF entry.header = "no_columns"
    THEN [err |-> "columns", file |-> entry.name, line_no |-> 0, recs |-> out_records]
    ELSE ReadLines(entry, 1, out_records)

\* the loop over the directory entries: the error or "", the records pushed
\* and the names of the files an ifstream was constructed for
RECURSIVE DirectoryLoop(_, _, _, _)
DirectoryLoop(entries, masks, out_records, files) ==
    IF entries = <<>>
    THEN [err |-> "", file |-> "", line_no |-> 0, recs |-> out_records, opened |-> files]
    ELSE IF ~Passes(Head(entries), masks)
    THEN DirectoryLoop(Tail(entries), masks, out_records, files)
    ELSE LET r == ReadFile(Head(entries), out_records)
         IN  IF r.err # ""
             THEN [err |-> r.err, file |-> r.file, line_no |-> r.line_no,
                   recs |-> r.recs, opened |-> Append(files, Head(entries).name)]
             ELSE DirectoryLoop(Tail(entries), masks, r.recs,
                                Append(files, Head(entries).name))

\* read_csv_files(dir, masks, out_records) where the path dir is missing, is
\* not a directory, or is a directory with these entries
read_csv_files(path_type, entries, masks) ==
    IF path_type = "missing"
    THEN [err |-> "missing", file |-> "", line_no |-> 0, recs |-> <<>>, opened |-> <<>>]
    ELSE IF path_type # "directory"
    THEN [err |-> "not_directory", file |-> "", line_no |-> 0, recs |-> <<>>, opened |-> <<>>]
    ELSE DirectoryLoop(entries, masks, <<>>, <<>>)

---------------------------------------------------------------------------
(* cfg::parse_config.  A configuration file is [exists, toml, main, input, *)
(* filename_mask]: toml says whether the text parses, main whether there   *)
(* is a [main] table, input whether main.input is a string; filename_mask  *)
(* is [present, is_array, items], the items being [is_string, value].      *)

parse_config(file) ==
    IF ~file.exists THEN [err |-> "not_found", filename_mask |-> <<>>]
    ELSE IF ~file.toml THEN [err |-> "toml", filename_mask |-> <<>>]
    ELSE IF ~file.main THEN [err |-> "no_main", filename_mask |-> <<>>]
    ELSE IF ~file.input THEN [err |-> "no_input", filename_mask |-> <<>>]
    ELSE LET m     == file.filename_mask
             items == IF m.present /\ m.is_array THEN m.items ELSE <<>>
             strs  == SelectSeq(items, LAMBDA it : it.is_string)
         IN  [err |-> "", filename_mask |-> [i \in 1..Len(strs) |-> strs[i].value]]

---------------------------------------------------------------------------
(* main(): the stable sort *)

\* a comparator that looks at the timestamp only
RecordLess_TsOnly(a, b) == a.receive_ts < b.receive_ts

\* a comparator that leaves out the source file
RecordLess_NoFile(a, b) ==
    IF a.receive_ts # b.receive_ts THEN a.receive_ts < b.receive_ts
    ELSE a.line_no < b.line_no

\* the comparator passed to std::stable_sort
RecordLess(a, b) ==
    IF a.receive_ts # b.receive_ts THEN a.receive_ts < b.receive_ts
    ELSE IF a.source_file # b.source_file THEN PathLess(a.source_file, b.source_file)
    ELSE a.line_no < b.line_no

\* std::stable_sort: an element goes behind every element it is not less than
RECURSIVE StableInsert(_, _)
StableInsert(s, r) ==
    IF s = <<>> THEN <<r>>
    ELSE IF RecordLess(r, Head(s)) THEN <<r>> \o s
    ELSE <<Head(s)>> \o StableInsert(Tail(s), r)

RECURSIVE stable_sort(_)
stable_sort(s) ==
    IF s = <<>> THEN <<>>
    ELSE StableInsert(stable_sort(SubSeq(s, 1, Len(s) - 1)), s[Len(s)])

---------------------------------------------------------------------------
(* main(): format_price.  The string is <<sign, integer part, fraction>>,  *)
(* the fraction being the number its Precision digits spell.               *)

Precision == 8

RECURSIVE Pow10(_)
Pow10(k) == IF k = 0 THEN 1 ELSE 10 * Pow10(k - 1)

\* <<(10 * r) \div d, (10 * r) % d>> for 0 <= r < d, by ten additions where
\* 10 * r itself would overflow a 32-bit integer
RECURSIVE TenAdditions(_, _, _, _, _)
TenAdditions(r, d, k, q, acc) ==
    IF k = 0 THEN <<q, acc>>
    ELSE IF acc + r >= d THEN TenAdditions(r, d, k - 1, q + 1, acc + r - d)
    ELSE TenAdditions(r, d, k - 1, q, acc + r)

TimesTenDivMod(r, d) ==
    IF r < 200000000 THEN <<(10 * r) \div d, (10 * r) % d>>
    ELSE TenAdditions(r, d, 10, 0, 0)

\* k more digits of r / d behind the digits that spell frac
RECURSIVE FractionDigits(_, _, _, _)
FractionDigits(r, d, k, frac) ==
    IF k = 0 THEN <<frac, r>>
    ELSE LET qr == TimesTenDivMod(r, d)
         IN  FractionDigits(qr[2], d, k - 1, 10 * frac + qr[1])

\* ss.setf(std::ios::fixed); ss << std::setprecision(8) << (double)v
format_price(v) ==
    LET x    == ToDouble(v)
        a    == Abs(x[1])
        ip   == a \div x[2]
        fr   == FractionDigits(a % x[2], x[2], Precision, 0)
        up   == \/ 2 * fr[2] > x[2]
                \/ (2 * fr[2] = x[2] /\ fr[1] % 2 = 1)
        frac == IF up THEN fr[1] + 1 ELSE fr[1]
    IN  <<IF x[1] < 0 THEN "-" ELSE "",
          IF frac = Pow10(Precision) THEN ip + 1 ELSE ip,
          IF frac = Pow10(Precision) THEN 0 ELSE frac>>

---------------------------------------------------------------------------
(* main(): one run over a configuration file and an input directory *)

Timestamps == {1, 2}

Prices == {LD(-1, 268435456, 0), LD(1, 268435456, 0), LD(1, 1, 0)}

Lines ==
    [kind : {"ok"}, receive_ts : Timestamps, price : Prices]
        \cup {[kind |-> "short", receive_ts |-> 0, price |-> LD(0, 1, 0)]}

\* a regular file that opens and has the two columns in its header
CsvFile(name, lines) ==
    [name |-> name, type |-> "regular", openable |-> TRUE, header |-> "ok",
     lines |-> lines, children |-> <<>>]

\* the end-to-end scenario: rows (1;10), (2;20), (3;15), (4;5) in one file
ScenarioDir ==
    <<CsvFile("a.csv",
              <<[kind |-> "ok", receive_ts |-> 1, price |-> LD(10, 1, 0)],
                [kind |-> "ok", receive_ts |-> 2, price |-> LD(20, 1, 0)],
                [kind |-> "ok", receive_ts |-> 3, price |-> LD(15, 1, 0)],
                [kind |-> "ok", receive_ts |-> 4, price |-> LD(5, 1, 0)]>>)>>

\* a directory of the model: a.csv and b.csv with these lines, discovered in
\* this order, or a.csv alone
DirOf(la, lb, order) ==
    LET a == CsvFile("a.csv", la)
        b == CsvFile("b.csv", lb)
    IN  IF order = "ab" THEN <<a, b>>
        ELSE IF order = "ba" THEN <<b, a>>
        ELSE <<a>>

\* a configuration file with [main], input and this filename_mask value
ConfigOf(mask_value) ==
    [exists |-> TRUE, toml |-> TRUE, main |-> TRUE, input |-> TRUE,
     filename_mask |-> mask_value]

NoMask == [present |-> FALSE, is_array |-> FALSE, items |-> <<>>]

HeaderLine == <<"receive_ts", "price_median">>

\* main() is entered: nothing parsed, read, created or written yet
MainStart ==
    /\ pc = "args"
    /\ filename_mask = <<>>
    /\ opened = <<>>
    /\ err = <<>>
    /\ phases = <<>>
    /\ out_fs = [directory |-> FALSE, file |-> FALSE]
    /\ records = <<>>
    /\ idx = 0
    /\ ofs = [is_open |-> FALSE, lines |-> <<>>]
    /\ last_median_str = <<>>
    /\ changes_written = 0
    /\ exit_code = -1
    /\ Construct(DefaultSeedThreshold)
    /\ added = <<>>
    /\ n_adds = 0
    /\ last_op = "new"
    /\ prev_op = "new"
    /\ ret = <<>>

Init ==
    /\ config_file = ConfigOf(NoMask)
    /\ \/ dir = <<>>
       \/ dir = ScenarioDir
       \/ \E na \in 0..MaxRecords : \E nb \in 0..(MaxRecords - na) :
             \E la \in [1..na -> Lines] : \E lb \in [1..nb -> Lines] :
                \E order \in IF nb = 0 THEN {"ab", "ba", "a"} ELSE {"ab", "ba"} :
                   dir = DirOf(la, lb, order)
    /\ MainStart

\* the error main() reports before it returns a non-zero status
Error(class, kind, file, line_no) ==
    <<[class |-> class, kind |-> kind, file |-> file, line_no |-> line_no]>>

\* po::parse_command_line, po::notify and the --help branch; the command
\* line decides: a run, --help, or an option the parser throws on
ParseArgs ==
    /\ pc = "args"
    /\ phases' = Append(phases, "args")
    /\ \E argv \in {"run", "help", "unknown_option"} :
          IF argv = "run"
          THEN /\ pc' = "config"
               /\ UNCHANGED <<err, exit_code>>
          ELSE IF argv = "help"
          THEN /\ pc' = "done"
               /\ exit_code' = 0
               /\ err' = err
          ELSE /\ pc' = "done"
               /\ exit_code' = 10
               /\ err' = Error("exception", "po::error", "", 0)
    /\ UNCHANGED <<config_file, filename_mask, dir, opened, records, idx, ofs, out_fs,
                   last_median_str, changes_written, calc_vars, obs_vars>>

\* cfg::parse_config whose error is reported without a return
ParseConfig_GoesOn ==
    /\ pc = "config"
    /\ phases' = Append(phases, "config")
    /\ LET r == parse_config(config_file)
       IN  /\ err' = IF r.err # "" THEN Error("config", r.err, "", 0) ELSE err
           /\ filename_mask' = r.filename_mask
           /\ pc' = "read"
           /\ exit_code' = exit_code
    /\ UNCHANGED <<config_file, dir, opened, records, idx, ofs, out_fs,
                   last_median_str, changes_written, calc_vars, obs_vars>>

\* cfg::parse_config, "return 2" on its error
ParseConfig ==
    /\ pc = "config"
    /\ phases' = Append(phases, "config")
    /\ LET r == parse_config(config_file)
       IN  IF r.err # ""
           THEN /\ err' = Error("config", r.err, "", 0)
                /\ exit_code' = 2
                /\ pc' = "done"
                /\ filename_mask' = filename_mask
           ELSE /\ filename_mask' = r.filename_mask
                /\ pc' = "read"
                /\ UNCHANGED <<err, exit_code>>
    /\ UNCHANGED <<config_file, dir, opened, records, idx, ofs, out_fs,
                   last_median_str, changes_written, calc_vars, obs_vars>>

\* csv::read_csv_files without the "return 0" on no records
ReadCsv_NoEarlyReturn ==
    /\ pc = "read"
    /\ phases' = Append(phases, "read")
    /\ \E path_type \in {"directory", "missing", "regular", "no_permission"} :
          IF path_type = "no_permission"
          THEN /\ err' = Error("exception", "filesystem_error", "", 0)
               /\ exit_code' = 10
               /\ pc' = "done"
               /\ UNCHANGED <<records, opened>>
          ELSE LET r == read_csv_files(path_type, dir, filename_mask)
               IN  /\ records' = r.recs
                   /\ opened' = r.opened
                   /\ IF r.err # ""
                      THEN /\ err' = Error("read", r.err, r.file, r.line_no)
                           /\ exit_code' = 3
                           /\ pc' = "done"
                      ELSE /\ err' = err
                           /\ exit_code' = exit_code
                           /\ pc' = "sort"
    /\ UNCHANGED <<config_file, filename_mask, dir, idx, ofs, out_fs, last_median_str,
                   changes_written, calc_vars, obs_vars>>

\* csv::read_csv_files, "return 3" on its error, "return 0" on no records;
\* the file system decides what the input path is, and the directory
\* iterator throws on a directory that may not be read
ReadCsv ==
    /\ pc = "read"
    /\ phases' = Append(phases, "read")
    /\ \E path_type \in {"directory", "missing", "regular", "no_permission"} :
          IF path_type = "no_permission"
          THEN /\ err' = Error("exception", "filesystem_error", "", 0)
               /\ exit_code' = 10
               /\ pc' = "done"
               /\ UNCHANGED <<records, opened>>
          ELSE LET r == read_csv_files(path_type, dir, filename_mask)
               IN  /\ records' = r.recs
                   /\ opened' = r.opened
                   /\ IF r.err # ""
                      THEN /\ err' = Error("read", r.err, r.file, r.line_no)
                           /\ exit_code' = 3
                           /\ pc' = "done"
                      ELSE /\ err' = err
                           /\ IF r.recs = <<>>
                              THEN exit_code' = 0 /\ pc' = "done"
                              ELSE exit_code' = exit_code /\ pc' = "sort"
    /\ UNCHANGED <<config_file, filename_mask, dir, idx, ofs, out_fs, last_median_str,
                   changes_written, calc_vars, obs_vars>>

\* std::stable_sort(records.begin(), records.end(), comparator)
SortRecords ==
    /\ pc = "sort"
    /\ phases' = Append(phases, "sort")
    /\ records' = stable_sort(records)
    /\ pc' = "open"
    /\ UNCHANGED <<config_file, filename_mask, dir, opened, err, idx, ofs, out_fs,
                   last_median_str, changes_written, exit_code, calc_vars, obs_vars>>

\* the output phase returning one status for both of its errors
OpenOutput_OneStatus ==
    /\ pc = "open"
    /\ phases' = Append(phases, "open")
    /\ \E outcome \in {"ok", "no_directory", "not_open"} :
          IF outcome = "ok"
          THEN /\ ofs' = [is_open |-> TRUE, lines |-> <<HeaderLine>>]
               /\ out_fs' = [directory |-> TRUE, file |-> TRUE]
               /\ pc' = "loop"
               /\ UNCHANGED <<err, exit_code>>
          ELSE IF outcome = "no_directory"
          THEN /\ ofs' = ofs
               /\ out_fs' = out_fs
               /\ pc' = "done"
               /\ exit_code' = 4
               /\ err' = Error("output_dir", "create_directories", "", 0)
          ELSE /\ ofs' = ofs
               /\ out_fs' = [directory |-> TRUE, file |-> FALSE]
               /\ pc' = "done"
               /\ exit_code' = 4
               /\ err' = Error("output_file", "not_open", "", 0)
    /\ UNCHANGED <<config_file, filename_mask, dir, opened, records, idx, last_median_str,
                   changes_written, calc_vars, obs_vars>>

\* create_directories, the ofstream, and the header line; the file system
\* decides whether the directory and the file can be made
OpenOutput ==
    /\ pc = "open"
    /\ phases' = Append(phases, "open")
    /\ \E outcome \in {"ok", "no_directory", "not_open"} :
          IF outcome = "ok"
          THEN /\ ofs' = [is_open |-> TRUE, lines |-> <<HeaderLine>>]
               /\ out_fs' = [directory |-> TRUE, file |-> TRUE]
               /\ pc' = "loop"
               /\ UNCHANGED <<err, exit_code>>
          ELSE IF outcome = "no_directory"
          THEN /\ ofs' = ofs
               /\ out_fs' = out_fs
               /\ pc' = "done"
               /\ exit_code' = 4
               /\ err' = Error("output_dir", "create_directories", "", 0)
          ELSE /\ ofs' = ofs
               /\ out_fs' = [directory |-> TRUE, file |-> FALSE]
               /\ pc' = "done"
               /\ exit_code' = 5
               /\ err' = Error("output_file", "not_open", "", 0)
    /\ UNCHANGED <<config_file, filename_mask, dir, opened, records, idx, last_median_str,
                   changes_written, calc_vars, obs_vars>>

\* the loop body without "last_median_str = med_str"
LoopStep_NoUpdate ==
    /\ pc = "loop"
    /\ idx < Len(records)
    /\ LET rec == records[idx + 1]
       IN  /\ add(rec.price)
           /\ added' = Append(added, rec.price)
           /\ \E med_opt \in median(_has_value', _using_psquare', _buffer', _acc') :
                 IF med_opt = <<>>
                 THEN UNCHANGED <<ofs, last_median_str, changes_written>>
                 ELSE LET med_str == format_price(med_opt[1])
                      IN  IF last_median_str = <<>> \/ last_median_str[1] # med_str
                          THEN /\ ofs' = [ofs EXCEPT !.lines =
                                             Append(@, <<rec.receive_ts, med_str>>)]
                               /\ last_median_str' = last_median_str
                               /\ changes_written' = changes_written + 1
                          ELSE UNCHANGED <<ofs, last_median_str, changes_written>>
    /\ idx' = idx + 1
    /\ UNCHANGED <<pc, dir, records, exit_code, n_adds, last_op, prev_op, ret,
                   config_file, filename_mask, opened, err, phases, out_fs>>

\* the loop body writing a row for every record
LoopStep_Always ==
    /\ pc = "loop"
    /\ idx < Len(records)
    /\ LET rec == records[idx + 1]
       IN  /\ add(rec.price)
           /\ added' = Append(added, rec.price)
           /\ \E med_opt \in median(_has_value', _using_psquare', _buffer', _acc') :
                 IF med_opt = <<>>
                 THEN UNCHANGED <<ofs, last_median_str, changes_written>>
                 ELSE LET med_str == format_price(med_opt[1])
                      IN  IF TRUE
                          THEN /\ ofs' = [ofs EXCEPT !.lines =
                                             Append(@, <<rec.receive_ts, med_str>>)]
                               /\ last_median_str' = <<med_str>>
                               /\ changes_written' = changes_written + 1
                          ELSE UNCHANGED <<ofs, last_median_str, changes_written>>
    /\ idx' = idx + 1
    /\ UNCHANGED <<pc, dir, records, exit_code, n_adds, last_op, prev_op, ret,
                   config_file, filename_mask, opened, err, phases, out_fs>>

\* one pass of "for (const auto& rec : records)"
LoopStep ==
    /\ pc = "loop"
    /\ idx < Len(records)
    /\ LET rec == records[idx + 1]
       IN  /\ add(rec.price)
           /\ added' = Append(added, rec.price)
           /\ \E med_opt \in median(_has_value', _using_psquare', _buffer', _acc') :
                 IF med_opt = <<>>
                 THEN UNCHANGED <<ofs, last_median_str, changes_written>>
                 ELSE LET med_str == format_price(med_opt[1])
                      IN  IF last_median_str = <<>> \/ last_median_str[1] # med_str
                          THEN /\ ofs' = [ofs EXCEPT !.lines =
                                             Append(@, <<rec.receive_ts, med_str>>)]
                               /\ last_median_str' = <<med_str>>
                               /\ changes_written' = changes_written + 1
                          ELSE UNCHANGED <<ofs, last_median_str, changes_written>>
    /\ idx' = idx + 1
    /\ UNCHANGED <<pc, dir, records, exit_code, n_adds, last_op, prev_op, ret,
                   config_file, filename_mask, opened, err, phases, out_fs>>

\* ofs.close(); return 0
Finish ==
    /\ pc = "loop"
    /\ idx = Len(records)
    /\ ofs' = [ofs EXCEPT !.is_open = FALSE]
    /\ exit_code' = 0
    /\ pc' = "done"
    /\ phases' = Append(phases, "write")
    /\ UNCHANGED <<config_file, filename_mask, dir, opened, err, records, idx, out_fs,
                   last_median_str, changes_written, calc_vars, obs_vars>>

Next ==
    \/ ParseArgs
    \/ ParseConfig
    \/ ReadCsv
    \/ SortRecords
    \/ OpenOutput
    \/ LoopStep
    \/ Finish

Spec == Init /\ [][Next]_vars

---------------------------------------------------------------------------
(* Runs over input directories of every make-up: entries that are not      *)
(* regular files, names with other extensions, files that do not open,     *)
(* lack a header or its columns, rows that cannot be used; and over        *)
(* configuration files that do not parse or that set filename_mask.        *)

MaxEntries == 2     \* entries of the input directory

LineOk == [kind |-> "ok", receive_ts |-> 1, price |-> LD(1, 1, 0)]

LineOf(kind) == [kind |-> kind, receive_ts |-> 0, price |-> LD(0, 1, 0)]

\* what a file can hold: [openable, header, lines]
FileContents ==
    {[openable |-> FALSE, header |-> "ok", lines |-> <<LineOk>>],
     [openable |-> TRUE, header |-> "none", lines |-> <<>>],
     [openable |-> TRUE, header |-> "no_columns", lines |-> <<LineOk>>]}
    \cup
    [openable : {TRUE}, header : {"ok"},
     lines : {<<>>,
              <<LineOk>>,
              <<LineOf("empty"), LineOf("short")>>,
              <<LineOk, LineOf("bad_ts")>>,
              <<LineOf("empty"), LineOk, LineOf("bad_price")>>}]

FileOf(name, c) ==
    [name |-> name, type |-> "regular", openable |-> c.openable,
     header |-> c.header, lines |-> c.lines, children |-> <<>>]

\* a subdirectory named like a CSV file, with a CSV file inside
SubDir ==
    [name |-> "d.csv", type |-> "directory", openable |-> FALSE, header |-> "none",
     lines |-> <<>>, children |-> <<CsvFile("b.csv", <<LineOk>>)>>]

DirEntries ==
    {FileOf(name, c) : name \in {"a.csv", "b.CSV"}, c \in FileContents}
    \cup {FileOf(name, c) : name \in {"b.txt", ".csv"},
                            c \in {c \in FileContents : c.openable /\ c.header = "ok"
                                                        /\ Len(c.lines) = 2}}
    \cup {SubDir}

MaskArray(items) == [present |-> TRUE, is_array |-> TRUE, items |-> items]

MaskValues ==
    {NoMask,
     MaskArray(<<[is_string |-> TRUE, value |-> "a"]>>),
     MaskArray(<<[is_string |-> FALSE, value |-> 5],
                 [is_string |-> TRUE, value |-> "sv"],
                 [is_string |-> TRUE, value |-> "b"]>>)}

\* configuration files parse_config returns an error for
BadConfigs ==
    {[ConfigOf(NoMask) EXCEPT !.exists = FALSE],
     [ConfigOf(NoMask) EXCEPT !.toml = FALSE],
     [ConfigOf(NoMask) EXCEPT !.main = FALSE],
     [ConfigOf(NoMask) EXCEPT !.input = FALSE]}

InitDir ==
    /\ \/ /\ config_file \in BadConfigs
          /\ dir = ScenarioDir
       \/ /\ \E mask_value \in MaskValues : config_file = ConfigOf(mask_value)
          /\ \E n \in 0..MaxEntries : \E entries \in [1..n -> DirEntries] :
                /\ \A i \in 1..n : \A j \in (i + 1)..n : entries[i].name # entries[j].name
                /\ dir = entries
    /\ MainStart

SpecDir == InitDir /\ [][Next]_vars

---------------------------------------------------------------------------
(* Reference definitions for the claims *)

DoublesOf(ldseq) == [i \in 1..Len(ldseq) |-> ToDouble(ldseq[i])]

\* the median of a full sort of doubles: the middle element, or the mean of
\* the two middle elements
SortedMedian(s) ==
    LET t == SortDoubles(s)
        n == Len(t)
    IN  IF n % 2 = 1 THEN t[(n + 1) \div 2]
        ELSE RDiv(RAdd(t[n \div 2], t[(n \div 2) + 1]), R(2))

\* the number of indices at which x occurs in s (s as a multiset)
Count(s, x) == Cardinality({i \in 1..Len(s) : s[i] = x})

SameBag(s, t) ==
    /\ Len(s) = Len(t)
    /\ \A i \in 1..Len(s) : Count(s, s[i]) = Count(t, s[i])

---------------------------------------------------------------------------
(* C1 *)

---------------------------------------------------------------------------
(* C2 *)

\* the sample values the calculator's members hold: the buffer, or after the
\* promotion the heights of the accumulator's five markers
HeldValues == IF _using_psquare THEN _acc[1].heights ELSE _buffer

---------------------------------------------------------------------------
(* C3 *)

\* C3: a call to median() leaves every member of the calculator as it was,
\* and a call that directly follows another call to median() returns what
\* that call returned, in the empty state, in buffer mode and in P-square mode.
C3_MedianIdempotent ==
    [][last_op' = "median" =>
          /\ calc_vars' = calc_vars
          /\ (last_op = "median" => ret' = ret)]_vars

C3_Witness ==
    /\ prev_op = "median"
    /\ last_op = "median"
    /\ ~_using_psquare
    /\ Len(_buffer) = 4
    /\ Cardinality(NthElementOutcomes(_buffer, 2)) > 1
    /\ ret # <<>>

---------------------------------------------------------------------------
(* C4 *)

\* C4: add cannot fail in any state (in P-square mode the accumulator it
\* dereferences exists); median() returns nullopt exactly when nothing was
\* added since construction or the last reset; and when something was, the
\* empty-buffer branch with its NaN is not taken and the value is not NaN.
C4_NulloptIffEmpty ==
    /\ _using_psquare => _acc # <<>>
    /\ (_has_value /\ ~_using_psquare) => _buffer # <<>>
    /\ last_op = "median" =>
          /\ (ret = <<>>) <=> (added = <<>>)
          /\ ret # <<>> => ret[1].hi # NaN

C4_Witness ==
    /\ last_op = "median"
    /\ prev_op = "reset"
    /\ n_adds > 0
    /\ ret = <<>>

---------------------------------------------------------------------------
(* Reference definitions for the claims about main() *)

\* the rows written so far, behind the header
Rows == IF ofs.lines = <<>> THEN <<>> ELSE Tail(ofs.lines)

\* the median of the first k prices of recs by a full sort, formatted
MedianStrAfter(recs, k) ==
    format_price(ToLongDouble(SortedMedian(
        [i \in 1..k |-> ToDouble(recs[i].price)])))

\* one row for the first record and one for every later record whose
\* formatted median differs from that of the record before it
RECURSIVE ChangeRows(_, _)
ChangeRows(recs, k) ==
    IF k = 0 THEN <<>>
    ELSE IF k = 1 \/ MedianStrAfter(recs, k) # MedianStrAfter(recs, k - 1)
    THEN Append(ChangeRows(recs, k - 1), <<recs[k].receive_ts, MedianStrAfter(recs, k)>>)
    ELSE ChangeRows(recs, k - 1)

\* two formatted medians that are the same number: -0.00000000 is 0.00000000
SameValue(s, t) ==
    /\ s[2] = t[2]
    /\ s[3] = t[3]
    /\ (s[1] = t[1] \/ (s[2] = 0 /\ s[3] = 0))

\* the order of the key (receive_ts, source_file, line_no)
KeyLeq(a, b) ==
    \/ a.receive_ts < b.receive_ts
    \/ /\ a.receive_ts = b.receive_ts
       /\ \/ PathRank[a.source_file] < PathRank[b.source_file]
          \/ /\ a.source_file = b.source_file
             /\ a.line_no <= b.line_no

\* the records of the directory as a set: what the files hold, whatever the
\* order the directory iterator yields them in
RecordSet(d) ==
    UNION {{[receive_ts  |-> d[f].lines[k].receive_ts,
             price       |-> d[f].lines[k].price,
             source_file |-> d[f].name,
             line_no     |-> k + 1] :
               k \in {j \in 1..Len(d[f].lines) : d[f].lines[j].kind = "ok"}} :
           f \in 1..Len(d)}

RECURSIVE StreamOf(_)
StreamOf(S) ==
    IF S = {} THEN <<>>
    ELSE LET m == CHOOSE m \in S : \A x \in S : KeyLeq(m, x)
         IN  <<m>> \o StreamOf(S \ {m})

\* the run has sorted its records
Sorted == pc \in {"open", "loop"} \/ (pc = "done" /\ exit_code # 3 /\ records # <<>>)

---------------------------------------------------------------------------
(* C5 *)

\* C5: in each pass of the median loop, with med the median after adding the
\* record's price formatted to 8 fractional digits, the row (record.receive_ts,
\* med) is appended to the output if no row has been written yet or med
\* differs from the median string of the last written row, and otherwise
\* nothing is written; the pass for the first record writes a row.
C5_RowIffFormattedMedianChanged ==
    [][(pc = "loop" /\ idx' = idx + 1) =>
          LET rec == records[idx + 1]
              lastWritten == IF Rows = <<>> THEN <<>> ELSE <<Rows[Len(Rows)][2]>>
          IN  /\ \A m \in median(_has_value', _using_psquare', _buffer', _acc') :
                    /\ m # <<>>
                    /\ IF lastWritten = <<>> \/ lastWritten[1] # format_price(m[1])
                       THEN ofs'.lines = Append(ofs.lines,
                                                <<rec.receive_ts, format_price(m[1])>>)
                       ELSE ofs' = ofs
              /\ idx = 0 => Len(ofs'.lines) = Len(ofs.lines) + 1]_vars

\* a pass that wrote nothing although the median changed below the precision
C5_Witness ==
    /\ pc = "loop"
    /\ idx = 2
    /\ Len(Rows) = 1
    /\ _buffer[1] # _buffer[2]

---------------------------------------------------------------------------
(* C6 *)

\* C6: the rows written have non-decreasing timestamps, and no two
\* consecutive rows carry the same median value at 8 fractional digits.
C6_ConsecutiveRowsDiffer ==
    \A i \in 1..(Len(Rows) - 1) :
        /\ Rows[i][1] <= Rows[i + 1][1]
        /\ ~SameValue(Rows[i][2], Rows[i + 1][2])

---------------------------------------------------------------------------
(* C7 *)

\* C7 as stated: one row per distinct median value: no two rows of a run
\* carry the same formatted median; rows are in timestamp order; there is no
\* row before the first insertion.
C7_OneRowPerDistinctMedian ==
    /\ \A i \in 1..Len(Rows) : \A j \in (i + 1)..Len(Rows) :
          /\ Rows[i][2] # Rows[j][2]
          /\ Rows[i][1] <= Rows[j][1]
    /\ idx = 0 => Rows = <<>>

\* C7 as amended: the rows written are one row for the first record and one
\* row for every later record whose formatted median differs from the
\* formatted median after the record before it, in the order of the
\* records, which is timestamp order; there is no row before the first
\* insertion.  (The medians are those of a full sort: the runs of the model
\* stay below seed_threshold.)
C7_OneRowPerChange ==
    (ofs.lines # <<>> /\ idx < _seed_threshold) =>
        /\ Rows = ChangeRows(records, idx)
        /\ changes_written = Len(Rows)
        /\ \A i \in 1..(Len(Rows) - 1) : Rows[i][1] <= Rows[i + 1][1]
        /\ idx = 0 => Rows = <<>>

\* a run that wrote the same median twice, another one between them
C7_Witness ==
    /\ pc = "done"
    /\ exit_code = 0
    /\ Len(Rows) = 3
    /\ Rows[1][2] = Rows[3][2]

---------------------------------------------------------------------------
(* C8 *)

\* C8: for the rows (1;10), (2;20), (3;15), (4;5) the run that has read
\* them and finished with status 0 has written the header and exactly the
\* rows 1;10.00000000, 2;15.00000000 and 4;12.50000000, in this order.
C8_EndToEnd ==
    (dir = ScenarioDir /\ pc = "done" /\ exit_code = 0 /\ records # <<>>) =>
        ofs.lines = <<HeaderLine,
                      <<1, <<"", 10, 0>>>>,
                      <<2, <<"", 15, 0>>>>,
                      <<4, <<"", 12, 50000000>>>>>>

C8_Witness == dir = ScenarioDir /\ pc = "done" /\ exit_code = 0 /\ idx = 4

---------------------------------------------------------------------------
(* C9 *)

\* C9: the sort step turns the records read into a permutation of them, none
\* added, dropped or duplicated, that ascends by (receive_ts, source_file,
\* line_no).
C9_SortedPermutation ==
    [][(pc = "sort" /\ pc' = "open") =>
          /\ SameBag(records, records')
          /\ \A i \in 1..Len(records') : \A j \in (i + 1)..Len(records') :
                KeyLeq(records'[i], records'[j])]_vars

\* sorted records with a timestamp shared by two files, b.csv read first
C9_Witness ==
    /\ pc = "open"
    /\ Len(dir) = 2
    /\ dir[1].name = "b.csv"
    /\ \E i \in 1..Len(records) : \E j \in (i + 1)..Len(records) :
          /\ records[i].receive_ts = records[j].receive_ts
          /\ records[i].source_file = "a.csv"
          /\ records[j].source_file = "b.csv"

---------------------------------------------------------------------------
(* C10 *)

\* C10: the sorted stream is a function of the set of files and their rows
\* alone, not of the order of discovery, and so is the change log of a
\* finished run.
C10_DiscoveryOrderIrrelevant ==
    /\ Sorted => records = StreamOf(RecordSet(dir))
    /\ (pc = "done" /\ exit_code = 0 /\ records # <<>>) =>
          Rows = ChangeRows(StreamOf(RecordSet(dir)), Cardinality(RecordSet(dir)))

\* a finished run over two files that share a timestamp, b.csv read first
C10_Witness ==
    /\ pc = "done"
    /\ exit_code = 0
    /\ Len(dir) = 2
    /\ dir[1].name = "b.csv"
    /\ Len(Rows) >= 2
    /\ \E i \in 1..Len(records) : \E j \in 1..Len(records) :
          /\ records[i].receive_ts = records[j].receive_ts
          /\ records[i].source_file # records[j].source_file

---------------------------------------------------------------------------
(* Reference definitions for the claims about files and errors *)

\* the name ends in ".csv", in whatever case, behind at least one character
EndsInDotCsv(name) ==
    LET c == Chars[name]
        n == Len(c)
    IN  /\ n > 4
        /\ c[n - 3] = "."
        /\ c[n - 2] \in {"c", "C"}
        /\ c[n - 1] \in {"s", "S"}
        /\ c[n] \in {"v", "V"}

\* the mask occurs in the name as a substring
Contains(name, mask) ==
    \E i \in 1..(Len(Chars[name]) + 1) : \E j \in (i - 1)..Len(Chars[name]) :
        SubSeq(Chars[name], i, j) = Chars[mask]

\* a matching file: a regular file of the directory itself, with the
\* extension .csv, that a mask selects when masks are configured
Selected(entry) ==
    /\ entry.type = "regular"
    /\ EndsInDotCsv(entry.name)
    /\ \/ filename_mask = <<>>
       \/ \E k \in 1..Len(filename_mask) : Contains(entry.name, filename_mask[k])

\* the input path was found to be a directory and was iterated
Scanned ==
    /\ Len(phases) >= 3
    /\ phases[3] = "read"
    /\ (err # <<>> => err[1].kind \notin {"missing", "not_directory", "filesystem_error"})

\* a data row the reader cannot use
BadRow(line) == line.kind \in {"short", "bad_ts", "bad_price"}

\* the lines of the file that are such rows
BadRowsOf(entry) ==
    IF entry.openable /\ entry.header = "ok"
    THEN {k \in 1..Len(entry.lines) : BadRow(entry.lines[k])}
    ELSE {}

\* the matching files with such a row, by their place in discovery order
FilesWithBadRow == {i \in 1..Len(dir) : Selected(dir[i]) /\ BadRowsOf(dir[i]) # {}}

Min(S) == CHOOSE x \in S : \A y \in S : x <= y

---------------------------------------------------------------------------
(* C11 *)

---------------------------------------------------------------------------
(* C12 *)

\* the phases of a run that returns 0 behind the median loop
Pipeline == <<"args", "config", "read", "sort", "open", "write">>

\* the error class a non-zero exit status stands for
ClassOfStatus ==
    [s \in {2, 3, 4, 5, 10} |->
        CASE s = 2  -> "config"
          [] s = 3  -> "read"
          [] s = 4  -> "output_dir"
          [] s = 5  -> "output_file"
          [] s = 10 -> "exception"]

\* the phase that detects the errors of a class
DetectedIn(class) ==
    CASE class = "config"      -> {"config"}
      [] class = "read"        -> {"read"}
      [] class = "output_dir"  -> {"open"}
      [] class = "output_file" -> {"open"}
      [] class = "exception"   -> {"args", "read"}

\* a reported error has ended the run in the phase that detected it, with
\* the status of its class, and status 0 belongs to runs without an error
ErrorEndsRun ==
    /\ phases = SubSeq(Pipeline, 1, Len(phases))
    /\ (pc = "done") <=> (exit_code # -1)
    /\ exit_code = 0 => err = <<>>
    /\ err # <<>> =>
          /\ pc = "done"
          /\ exit_code \in DOMAIN ClassOfStatus
          /\ ClassOfStatus[exit_code] = err[1].class
          /\ phases[Len(phases)] \in DetectedIn(err[1].class)
          /\ added = <<>> /\ ofs.lines = <<>> /\ ~out_fs.file
          /\ err[1].class \in {"config", "exception"} => records = <<>> /\ opened = <<>>

\* C12: an error, of whatever class, ends the run in the phase that detects
\* it: no step follows, no phase is carried out twice or after it, and the
\* exit status is non-zero and tells the class (configuration 2, input 3,
\* output directory 4, output file 5, exception 10); status 0 is returned
\* only by runs that reported no error.
C12_ErrorEndsRunWithItsStatus ==
    [][pc # "done" /\ ErrorEndsRun']_vars

\* the output file could not be opened, behind a read of two files
C12_Witness ==
    /\ pc = "done"
    /\ exit_code = 5
    /\ err # <<>>
    /\ Len(opened) = 2
    /\ Len(records) = 2
    /\ out_fs.directory

---------------------------------------------------------------------------
(* C13 *)

\* a file that opens and holds no data row: no first line at all, or the
\* header and nothing but empty lines
YieldsNothing(entry) ==
    /\ entry.openable
    /\ \/ entry.header = "none"
       \/ /\ entry.header = "ok"
          /\ \A k \in 1..Len(entry.lines) : entry.lines[k].kind = "empty"

\* C13: when the input directory has no matching file, or its matching
\* files hold no data row, the run ends with status 0 and no error; it has
\* written no row and has neither made the output directory nor created or
\* truncated the output file.
C13_NoRecordsIsSuccess ==
    (Scanned /\ \A i \in 1..Len(dir) : Selected(dir[i]) => YieldsNothing(dir[i])) =>
        /\ pc = "done"
        /\ exit_code = 0
        /\ err = <<>>
        /\ phases = <<"args", "config", "read">>
        /\ records = <<>> /\ added = <<>>
        /\ ofs = [is_open |-> FALSE, lines |-> <<>>]
        /\ out_fs = [directory |-> FALSE, file |-> FALSE]

\* a matching file without a first line beside a file with rows that no
\* mask selects
C13_Witness ==
    /\ Scanned
    /\ exit_code = 0
    /\ filename_mask # <<>>
    /\ \E i \in 1..Len(dir) : Selected(dir[i]) /\ dir[i].header = "none"
    /\ \E j \in 1..Len(dir) :
          /\ ~Selected(dir[j])
          /\ EndsInDotCsv(dir[j].name)
          /\ dir[j].type = "regular"
          /\ \E k \in 1..Len(dir[j].lines) : dir[j].lines[k].kind = "ok"

---------------------------------------------------------------------------
(* C14 *)

\* a matching file the reader gets through without an error
ReadsClean(entry) ==
    /\ entry.openable
    /\ entry.header # "no_columns"
    /\ BadRowsOf(entry) = {}

\* C14: the output file holds something (the header at least) only if the
\* configuration parsed, every matching file of the input directory was
\* read without an error, and the output directory and the file were made
\* and opened; a configuration error ends the run before the input
\* directory is scanned; an error of the output directory or file ends it
\* with nothing written.
C14_PhaseOrder ==
    /\ ofs.lines # <<>> =>
          /\ parse_config(config_file).err = ""
          /\ SubSeq(phases, 1, 5) = <<"args", "config", "read", "sort", "open">>
          /\ \A i \in 1..Len(dir) :
                Selected(dir[i]) =>
                    /\ ReadsClean(dir[i])
                    /\ \E k \in 1..Len(opened) : opened[k] = dir[i].name
          /\ out_fs = [directory |-> TRUE, file |-> TRUE]
          /\ ofs.lines[1] = HeaderLine
    /\ (err # <<>> /\ err[1].class = "config") =>
          /\ pc = "done"
          /\ phases = <<"args", "config">>
          /\ opened = <<>> /\ records = <<>>
    /\ (err # <<>> /\ err[1].class \in {"output_dir", "output_file"}) =>
          /\ pc = "done"
          /\ ofs.lines = <<>>
          /\ ~out_fs.file

\* the header has just been written, behind a read of two files under masks
C14_Witness ==
    /\ pc = "loop"
    /\ idx = 0
    /\ ofs.lines = <<HeaderLine>>
    /\ filename_mask # <<>>
    /\ Len(opened) = 2

---------------------------------------------------------------------------
(* C17 *)

\* the place in the directory at which the read ended: that of the file the
\* input error is about, or the last entry
LastVisited ==
    IF err # <<>> /\ err[1].class = "read"
    THEN CHOOSE i \in 1..Len(dir) : dir[i].name = err[1].file
    ELSE Len(dir)

\* C17: of the entries the scan of the input directory came to, the files
\* opened are exactly, and in that order, the regular files of the directory
\* itself whose extension is .csv in whatever case and whose name contains a
\* configured mask when masks are configured; nothing inside a subdirectory
\* is opened; every record comes from such a file, and a scan that ended
\* without error holds every row of every such file.
C17_ReadsExactlyTheSelectedFiles ==
    Scanned =>
        /\ opened = [k \in 1..Len(SelectSeq(SubSeq(dir, 1, LastVisited), Selected)) |->
                        SelectSeq(SubSeq(dir, 1, LastVisited), Selected)[k].name]
        /\ \A k \in 1..Len(records) :
              \E i \in 1..Len(dir) :
                 /\ Selected(dir[i])
                 /\ dir[i].name = records[k].source_file
                 /\ records[k].line_no - 1 \in 1..Len(dir[i].lines)
                 /\ dir[i].lines[records[k].line_no - 1].kind = "ok"
        /\ err = <<>> =>
              \A i \in 1..Len(dir) :
                 (Selected(dir[i]) /\ dir[i].header = "ok") =>
                    \A n \in 1..Len(dir[i].lines) :
                       dir[i].lines[n].kind = "ok" =>
                          \E k \in 1..Len(records) :
                             /\ records[k].source_file = dir[i].name
                             /\ records[k].line_no = n + 1

\* b.CSV is read for its upper-case extension and the mask "b"; the entry
\* before it, a subdirectory or a file of another extension, is not
C17_Witness ==
    /\ Scanned
    /\ err = <<>>
    /\ Len(filename_mask) = 2
    /\ Len(dir) = 2
    /\ ~Selected(dir[1])
    /\ dir[2].name = "b.CSV"
    /\ opened = <<"b.CSV">>
    /\ Len(records) = 1

---------------------------------------------------------------------------
(* C15 *)

\* x is the r-th smallest of the values of s (ranks from 1)
IsRank(s, x, r) ==
    /\ \E i \in 1..Len(s) : s[i] = x
    /\ Cardinality({i \in 1..Len(s) : RLess(s[i], x)}) < r
    /\ r <= Cardinality({i \in 1..Len(s) : RLeq(s[i], x)})

\* C15: while fewer than seed_threshold values have been added, median()
\* returns the exact median of the values added so far, as the doubles add
\* stores: for an odd count the value of middle rank, for an even count the
\* arithmetic mean of the two values of central rank; after 1, 3, 2 that is
\* 2, and after 1, 2, 3, 4 it is 2.5.  The default threshold is 64.
C15_ExactMedianInBufferMode ==
    /\ (last_op = "median" /\ added # <<>> /\ Len(added) < _seed_threshold) =>
          LET s == DoublesOf(added)
              n == Len(s)
          IN  /\ ret # <<>>
              /\ ret[1].lo = 0
              /\ IF n % 2 = 1
                 THEN IsRank(s, ret[1].hi, (n + 1) \div 2)
                 ELSE \E i \in 1..n : \E j \in 1..n :
                         /\ IsRank(s, s[i], n \div 2)
                         /\ IsRank(s, s[j], (n \div 2) + 1)
                         /\ ret[1].hi = RDiv(RAdd(s[i], s[j]), R(2))
    /\ median(TRUE, FALSE, <<R(1), R(3), R(2)>>, <<>>) = {<<ToLongDouble(R(2))>>}
    /\ median(TRUE, FALSE, <<R(1), R(2), R(3), R(4)>>, <<>>) = {<<ToLongDouble(<<5, 2>>)>>}
    /\ DefaultSeedThreshold = 64

\* an even count whose mean, 2.5, is none of the values added
C15_Witness ==
    /\ last_op = "median"
    /\ Len(added) = 4
    /\ _seed_threshold = 5
    /\ ret = <<ToLongDouble(<<5, 2>>)>>
    /\ added[1].hi = R(3)
    /\ added[4].hi = R(2)

---------------------------------------------------------------------------
(* C16 *)

\* C16: the calculator keeps the extended precision of the prices: what add
\* stores is the long double it was given, and the median of an odd count
\* below seed_threshold is one of the long doubles added, bits beyond the
\* double format included.
C16_KeepsExtendedPrecision ==
    /\ ~_using_psquare =>
          /\ Len(_buffer) = Len(added)
          /\ \A i \in 1..Len(_buffer) : ToLongDouble(_buffer[i]) = added[i]
    /\ (last_op = "median" /\ Len(added) < _seed_threshold /\ Len(added) % 2 = 1) =>
          \E i \in 1..Len(added) : ret = <<added[i]>>

---------------------------------------------------------------------------
(* C18 *)

\* the accumulator after the values of s, fed one by one from the first
RECURSIVE FedInOrder(_)
FedInOrder(s) ==
    IF s = <<>> THEN NewAcc
    ELSE AccAdd(FedInOrder(SubSeq(s, 1, Len(s) - 1)), s[Len(s)])

\* C18: with seed_threshold >= 1 the calculator is at all times either in
\* buffer mode, without an accumulator, its buffer holding as many values as
\* were added since construction or the last reset, fewer than
\* seed_threshold; or in P-square mode, with an accumulator and an empty
\* buffer.  It is in P-square mode exactly from the add on that brings the
\* count to seed_threshold; the accumulator has then been fed every value
\* added, in insertion order; add and median never leave P-square mode; and
\* reset, nothing else, brings back the state of construction.
C18_ModeStateMachine ==
    /\ _seed_threshold >= 1
    /\ \/ /\ ~_using_psquare
          /\ _acc = <<>>
          /\ Len(_buffer) = Len(added)
          /\ Len(_buffer) < _seed_threshold
       \/ /\ _using_psquare
          /\ _acc # <<>>
          /\ _buffer = <<>>
    /\ _using_psquare <=> (Len(added) >= _seed_threshold)
    /\ _using_psquare => _acc = <<FedInOrder(DoublesOf(added))>>
    /\ _has_value <=> (added # <<>>)
    /\ last_op \in {"new", "reset"} =>
          /\ ~_has_value /\ ~_using_psquare /\ _buffer = <<>> /\ _acc = <<>>

\* P-square mode three adds behind the switch, a median() call in between
C18_Witness ==
    /\ _using_psquare
    /\ _seed_threshold = 3
    /\ Len(added) = 6
    /\ last_op = "median"
    /\ prev_op = "add"
    /\ _acc[1].cnt = 6

=============================================================================
